---- MODULE Spec2Model ----
(***************************************************************************)
(* HRMS (hrapp): leave-request lifecycle and leave-balance arithmetic,     *)
(* the payslip-generation guard and the attendance recorder, modelled from *)
(* hrapp/views.py and hrapp/serializers.py.                                *)
(*                                                                         *)
(* The database tables are the variables; every HTTP handler is one        *)
(* action (Spec), and the handlers that the concurrency claims are about   *)
(* are also given statement by statement (SpecConc, SpecPayroll).          *)
(***************************************************************************)
EXTENDS Integers, Sequences, FiniteSets, TLC

(***************************************************************************)
(* Bounds of the model.                                                    *)
(***************************************************************************)
MaxRequests == 1        \* leave requests ever created
MaxDate == 2            \* dates are 1..MaxDate
MaxBalance == 2         \* initial casual / sick counters are 0..MaxBalance
MaxDupRequests == 2     \* leave requests ever created, in SpecDup

(***************************************************************************)
(* Users, roles and employees (identity layer).                            *)
(***************************************************************************)
None == "none"

EmployeeUsers == {"alice", "bob"}
HRUsers == {"hr1"}
Users == EmployeeUsers \cup HRUsers

Role(u) == IF u \in HRUsers THEN "hr" ELSE "employee"

\* Employee.objects.filter(user=u).first() / user.employee: the employee
\* record linked to a user, None when the user has no employee profile.
EmployeeOf(u) == IF u \in EmployeeUsers THEN u ELSE None

Employees == {EmployeeOf(u) : u \in EmployeeUsers}

Dates == 1..MaxDate

\* LeaveRequest.type choices.
LeaveTypes == {"CASUAL", "SICK", "UNPAID"}

\* LeaveRequest.status of a newly created row.
DefaultStatus == "PENDING"

\* LeaveRequest.days: inclusive day count of the range.
Days(lr) == lr.end_date - lr.start_date + 1

\* A LeaveBalance row as get_or_create inserts it.
DefaultBalance == [casual |-> 0, sick |-> 0]

VARIABLES
    requests,   \* LeaveRequest table: sequence of rows, the id is the index
    balance,    \* LeaveBalance table: employee -> row, for the rows that exist
    last,       \* the last HTTP call and its response
    txn,        \* the approve call each worker is executing, statement by statement
    payroll,    \* Payroll table: id -> row
    jobs,       \* payslip jobs dispatched and not yet finished, per payroll
    gen,        \* the generate_payslip call each worker is executing
    attendance, \* Attendance table: sequence of rows, the id is the index
    now,        \* the clock: minutes since midnight (UTC) of day 0
    tz,         \* offset in minutes of the local time zone from UTC
    att         \* the check_in call each worker is executing

vars == <<requests, balance, last, txn, payroll, jobs, gen, attendance, now, tz, att>>

\* What the handlers of LeaveRequestViewSet never touch, and what those of
\* PayrollViewSet never touch.
payrollVars == <<payroll, jobs, gen>>
leaveVars == <<requests, balance, txn>>
attendanceVars == <<attendance, now, tz, att>>

\* Workers serving HTTP calls concurrently.
Workers == {"w1", "w2"}

NoRequest ==
    [employee |-> None, type |-> "", start_date |-> 0, end_date |-> 0,
     status |-> "", is_paid |-> FALSE, action_by |-> None]

\* A worker that is executing no approve.
Idle == [pc |-> "idle", caller |-> None, id |-> 0, lr |-> NoRequest, lb |-> DefaultBalance]

\* Payroll rows and the employee each belongs to.
Payrolls == {"pay1", "pay2"}
PayrollEmployee(p) == IF p = "pay1" THEN "alice" ELSE "bob"

\* A Payroll row for which no payslip was generated yet.
NewPayroll == [is_generating |-> FALSE, payslip_file |-> FALSE, generated_at |-> FALSE]

\* A worker that is executing no generate_payslip.
GenIdle == [pc |-> "idle", caller |-> None, payroll |-> None, seen |-> NewPayroll]

\* The LeaveBalance table before the first request: no rows yet, or every
\* employee holding the same allowance of b days in both categories.
InitialBalances ==
    {<<>>} \cup {[e \in Employees |-> [casual |-> b, sick |-> b]] : b \in 0..MaxBalance}

\* NULL in a check_in / check_out column.
NoTime == -1

NoAttendance ==
    [employee |-> None, date |-> 0, check_in |-> NoTime, check_out |-> NoTime,
     status |-> ""]

\* A worker that is executing no check_in.
AttIdle ==
    [pc |-> "idle", caller |-> None, eid |-> 0, employee |-> None, now |-> 0,
     id |-> 0, row |-> NoAttendance]

\* No attendance was recorded and no check_in is running.
AttendanceAtRest ==
    /\ attendance = <<>>
    /\ now = 0
    /\ tz = 0
    /\ att = [w \in Workers |-> AttIdle]

Init ==
    /\ requests = <<>>
    /\ balance \in InitialBalances
    /\ last = [op |-> "", caller |-> None, id |-> 0, code |-> 0, detail |-> ""]
    /\ txn = [w \in Workers |-> Idle]
    /\ payroll = [p \in Payrolls |-> NewPayroll]
    /\ jobs = [p \in Payrolls |-> 0]
    /\ gen = [w \in Workers |-> GenIdle]
    /\ AttendanceAtRest

Resp(op, u, id, code, detail) ==
    [op |-> op, caller |-> u, id |-> id, code |-> code, detail |-> detail]

(***************************************************************************)
(* LeaveRequestViewSet                                                     *)
(***************************************************************************)

\* allowed_roles_by_action of LeaveRequestViewSet; an action that is not
\* listed is open to every authenticated role.
AllowedRoles(action) ==
    CASE action = "approve" -> {"hr"}
      [] action = "reject" -> {"hr"}
      [] action = "cancel" -> {"employee"}
      [] OTHER -> {"hr", "employee"}

RolePermission(action, u) == Role(u) \in AllowedRoles(action)

\* get_queryset: HR sees every request, anyone else only their own.
Visible(u, id) ==
    /\ id \in 1..Len(requests)
    /\ Role(u) # "hr" => requests[id].employee = EmployeeOf(u)

\* The row LeaveBalance.objects.get_or_create(employee=e) returns: the
\* stored row, or a new row with the default counters.
GetOrCreate(b, e) == IF e \in DOMAIN b THEN b[e] ELSE DefaultBalance

\* The table with the row of e saved.
SaveBalance(b, e, row) ==
    [x \in DOMAIN b \cup {e} |-> IF x = e THEN row ELSE b[x]]

(***************************************************************************)
(* LeaveRequestSerializer.validate / create, perform_create                *)
(***************************************************************************)

\* The statuses the duplicate-range check compares against.
BlockingStatuses == {"approved", "rejected", "pending"}

\* LeaveRequest.objects.filter(employee, start_date, end_date).first():
\* the matching row of lowest id, 0 when there is none.
Existing(reqs, e, start, end) ==
    LET ids == {i \in 1..Len(reqs) : /\ reqs[i].employee = e
                                     /\ reqs[i].start_date = start
                                     /\ reqs[i].end_date = end}
    IN IF ids = {} THEN 0 ELSE CHOOSE i \in ids : \A j \in ids : i <= j

\* (validate without the comparison of the two dates)
ValidateNoRangeCheck(reqs, u, start, end) ==
    IF EmployeeOf(u) = None THEN "no_employee"
    ELSE LET ex == Existing(reqs, EmployeeOf(u), start, end)
         IN IF ex # 0 /\ reqs[ex].status \in BlockingStatuses
            THEN "duplicate" ELSE ""

\* validate: the error it raises, "" when the attributes are accepted.
Validate(reqs, u, start, end) ==
    IF EmployeeOf(u) = None THEN "no_employee"
    ELSE IF start > end THEN "bad_range"
    ELSE LET ex == Existing(reqs, EmployeeOf(u), start, end)
         IN IF ex # 0 /\ reqs[ex].status \in BlockingStatuses
            THEN "duplicate" ELSE ""

\* create: is_paid is derived from the type, whatever the caller sent.
IsPaidFor(type) == IF type = "Unpaid" THEN FALSE ELSE TRUE

NewRequest(u, type, start, end) ==
    [employee |-> EmployeeOf(u), type |-> type,
     start_date |-> start, end_date |-> end,
     status |-> DefaultStatus, is_paid |-> IsPaidFor(type),
     action_by |-> None]

Create(u, type, start, end) ==
    /\ LET err == Validate(requests, u, start, end)
       IN IF err # ""
          THEN /\ last' = Resp("create", u, 0, 400, err)
               /\ UNCHANGED <<requests, balance, txn, payrollVars, attendanceVars>>
          ELSE /\ requests' = Append(requests, NewRequest(u, type, start, end))
               /\ last' = Resp("create", u, Len(requests) + 1, 201, "created")
               /\ UNCHANGED <<balance, txn, payrollVars, attendanceVars>>

(***************************************************************************)
(* LeaveRequestViewSet.approve                                             *)
(***************************************************************************)

\* (a check that lets a debit of one day too many through)
NotEnoughOffByOne(counter, days) == counter < days - 1

\* lb.casual < lr.days, lb.sick < lr.days
NotEnough(counter, days) == counter < days

\* (a balance check that holds every type but SICK against the casual
\* counter)
InsufficientAnyType(lr, lb) ==
    \/ lr.type # "SICK" /\ NotEnough(lb.casual, Days(lr))
    \/ lr.type = "SICK" /\ NotEnough(lb.sick, Days(lr))

\* The balance check of approve fails.
Insufficient(lr, lb) ==
    \/ lr.type = "CASUAL" /\ NotEnough(lb.casual, Days(lr))
    \/ lr.type = "SICK" /\ NotEnough(lb.sick, Days(lr))

\* (a debit of the other category's counter)
DebitOtherCounter(lr, lb) ==
    CASE lr.type = "CASUAL" -> [lb EXCEPT !.sick = @ - Days(lr)]
      [] lr.type = "SICK" -> [lb EXCEPT !.casual = @ - Days(lr)]
      [] OTHER -> lb

\* lb.casual -= lr.days, lb.sick -= lr.days
Debit(lr, lb) ==
    CASE lr.type = "CASUAL" -> [lb EXCEPT !.casual = @ - Days(lr)]
      [] lr.type = "SICK" -> [lb EXCEPT !.sick = @ - Days(lr)]
      [] OTHER -> lb

\* lr.status = "APPROVED"; lr.action_by = request.user
Approved(lr, u) == [lr EXCEPT !.status = "APPROVED", !.action_by = u]

\* (approve with lr.save() and lb.save() ahead of the balance check)
ApproveOutcomeSaveFirst(lr, lb, u) ==
    IF ~lr.is_paid
    THEN [code |-> 200, detail |-> "ok", save |-> TRUE,
          lr |-> Approved(lr, u), lb |-> lb]
    ELSE IF Insufficient(lr, lb)
    THEN [code |-> 400, detail |-> "insufficient", save |-> TRUE,
          lr |-> Approved(lr, u), lb |-> lb]
    ELSE [code |-> 200, detail |-> "ok", save |-> TRUE,
          lr |-> Approved(lr, u), lb |-> Debit(lr, lb)]

\* What approve does with the request row lr and the balance row lb it
\* read: the response, whether lr.save() is reached and with which row,
\* and the balance row as get_or_create and lb.save() leave it.
ApproveOutcome(lr, lb, u) ==
    IF ~lr.is_paid
    THEN [code |-> 200, detail |-> "ok", save |-> TRUE,
          lr |-> Approved(lr, u), lb |-> lb]
    ELSE IF Insufficient(lr, lb)
    THEN [code |-> 400, detail |-> "insufficient", save |-> FALSE,
          lr |-> lr, lb |-> lb]
    ELSE [code |-> 200, detail |-> "ok", save |-> TRUE,
          lr |-> Approved(lr, u), lb |-> Debit(lr, lb)]

Approve(u, id) ==
    /\ id \in 1..Len(requests)
    /\ UNCHANGED <<txn, payrollVars, attendanceVars>>
    /\ IF ~RolePermission("approve", u)
       THEN /\ last' = Resp("approve", u, id, 403, "forbidden")
            /\ UNCHANGED <<requests, balance>>
       ELSE LET lr == requests[id]
                e == lr.employee
                out == ApproveOutcome(lr, GetOrCreate(balance, e), u)
            IN /\ requests' = IF out.save THEN [requests EXCEPT ![id] = out.lr]
                              ELSE requests
               /\ balance' = IF lr.is_paid THEN SaveBalance(balance, e, out.lb)
                             ELSE balance
               /\ last' = Resp("approve", u, id, out.code, out.detail)

(***************************************************************************)
(* LeaveRequestViewSet.reject                                              *)
(***************************************************************************)
\* (a reject that does not record who rejected)
RejectedNoActor(lr, u) == [lr EXCEPT !.status = "REJECTED"]

\* lr.status = "REJECTED"; lr.action_by = request.user
Rejected(lr, u) == [lr EXCEPT !.status = "REJECTED", !.action_by = u]

Reject(u, id) ==
    /\ id \in 1..Len(requests)
    /\ UNCHANGED <<balance, txn, payrollVars, attendanceVars>>
    /\ IF ~RolePermission("reject", u)
       THEN /\ last' = Resp("reject", u, id, 403, "forbidden")
            /\ UNCHANGED requests
       ELSE /\ requests' = [requests EXCEPT ![id] = Rejected(@, u)]
            /\ last' = Resp("reject", u, id, 200, "ok")

(***************************************************************************)
(* LeaveRequestViewSet.cancel                                              *)
(***************************************************************************)
\* if lr.employee.user != request.user
NotOwner(lr, u) == lr.employee # EmployeeOf(u)

\* if lr.status != "PENDING"
NotPending(lr) == lr.status # "PENDING"

Cancelled(lr) == [lr EXCEPT !.status = "CANCELLED"]

\* (a cancel that credits the days of the request back to the balance)
CancelWithRefund(u, id) ==
    /\ id \in 1..Len(requests)
    /\ RolePermission("cancel", u) /\ Visible(u, id)
    /\ ~NotPending(requests[id])
    /\ requests' = [requests EXCEPT ![id] = Cancelled(@)]
    /\ balance' = SaveBalance(balance, requests[id].employee,
                     [GetOrCreate(balance, requests[id].employee)
                        EXCEPT !.casual = @ + Days(requests[id])])
    /\ last' = Resp("cancel", u, id, 200, "ok")
    /\ UNCHANGED <<txn, payrollVars, attendanceVars>>

Cancel(u, id) ==
    /\ id \in 1..Len(requests)
    /\ UNCHANGED <<balance, txn, payrollVars, attendanceVars>>
    /\ IF ~RolePermission("cancel", u)
       THEN /\ last' = Resp("cancel", u, id, 403, "forbidden")
            /\ UNCHANGED requests
       ELSE IF ~Visible(u, id)
       THEN /\ last' = Resp("cancel", u, id, 404, "not_found")
            /\ UNCHANGED requests
       ELSE IF NotOwner(requests[id], u)
       THEN /\ last' = Resp("cancel", u, id, 403, "not_allowed")
            /\ UNCHANGED requests
       ELSE IF NotPending(requests[id])
       THEN /\ last' = Resp("cancel", u, id, 400, "not_pending")
            /\ UNCHANGED requests
       ELSE /\ requests' = [requests EXCEPT ![id] = Cancelled(@)]
            /\ last' = Resp("cancel", u, id, 200, "ok")

(***************************************************************************)
(* The leave-request lifecycle, one action per HTTP call.                  *)
(***************************************************************************)
Next ==
    \/ /\ Len(requests) < MaxRequests
       /\ \E u \in Users, t \in LeaveTypes, s \in Dates, e \in Dates : Create(u, t, s, e)
    \/ \E u \in HRUsers, id \in 1..MaxRequests : Approve(u, id)
    \/ \E u \in HRUsers, id \in 1..MaxRequests : Reject(u, id)
    \/ \E u \in Users, id \in 1..MaxRequests : Cancel(u, id)

Spec == Init /\ [][Next]_vars

\* The same lifecycle with room for a second request.
NextDup ==
    \/ /\ Len(requests) < MaxDupRequests
       /\ \E u \in Users, t \in LeaveTypes, s \in Dates, e \in Dates : Create(u, t, s, e)
    \/ \E u \in HRUsers, id \in 1..MaxDupRequests : Approve(u, id)
    \/ \E u \in HRUsers, id \in 1..MaxDupRequests : Reject(u, id)
    \/ \E u \in Users, id \in 1..MaxDupRequests : Cancel(u, id)

SpecDup == Init /\ [][NextDup]_vars

\* The callers of the lifecycle when the question is who acted: one
\* employee and HR.
ActorCallers == {"alice"} \cup HRUsers

\* The lifecycle with every operation called by both, those whom the role
\* check of the operation turns away included.
NextActors ==
    \/ /\ Len(requests) < MaxRequests
       /\ \E u \in ActorCallers, t \in LeaveTypes, s \in Dates, e \in Dates :
             Create(u, t, s, e)
    \/ \E u \in ActorCallers, id \in 1..MaxRequests : Approve(u, id)
    \/ \E u \in ActorCallers, id \in 1..MaxRequests : Reject(u, id)
    \/ \E u \in ActorCallers, id \in 1..MaxRequests : Cancel(u, id)

SpecActors == Init /\ [][NextActors]_vars

\* Create calls alone: any that validate refuses, and those it accepts
\* while the table has room.
NextCreate ==
    \E u \in Users, t \in LeaveTypes, s \in Dates, e \in Dates :
        /\ Validate(requests, u, s, e) = "" => Len(requests) < MaxRequests
        /\ Create(u, t, s, e)

SpecCreate == Init /\ [][NextCreate]_vars

(***************************************************************************)
(* approve, statement by statement, for concurrent calls.  The handler     *)
(* runs in transaction.atomic: what it saves becomes visible to the other  *)
(* calls when it returns; what it reads is what was committed by then (no  *)
(* select_for_update, no row lock is taken by the reads).                  *)
(***************************************************************************)

\* lr = self.get_object()
ApproveGetObject(w, u, id) ==
    /\ txn[w].pc = "idle"
    /\ id \in 1..Len(requests)
    /\ RolePermission("approve", u)
    /\ txn' = [txn EXCEPT ![w] = [pc |-> "got", caller |-> u, id |-> id,
                                  lr |-> requests[id], lb |-> DefaultBalance]]
    /\ UNCHANGED <<requests, balance, last, payrollVars, attendanceVars>>

\* if lr.is_paid: get_or_create, the balance check, the debit of lb; the
\* call ends here with the 400 response when the check fails.
ApproveCheckBalance(w) ==
    /\ txn[w].pc = "got"
    /\ LET lr == txn[w].lr
           e == lr.employee
           lb == GetOrCreate(balance, e)
           out == ApproveOutcome(lr, lb, txn[w].caller)
       IN /\ balance' = IF lr.is_paid THEN SaveBalance(balance, e, lb) ELSE balance
          /\ IF out.save
             THEN /\ txn' = [txn EXCEPT ![w].pc = "checked", ![w].lb = lb]
                  /\ UNCHANGED last
             ELSE /\ txn' = [txn EXCEPT ![w] = Idle]
                  /\ last' = Resp("approve", txn[w].caller, txn[w].id, out.code, out.detail)
    /\ UNCHANGED <<requests, payrollVars, attendanceVars>>

\* (approve without transaction.atomic: lr.save() is on its own, and a
\* call that ends after it leaves the request APPROVED and nothing debited)
ApproveCommitRequestOnly(w) ==
    /\ txn[w].pc = "checked"
    /\ requests' = [requests EXCEPT ![txn[w].id] = Approved(txn[w].lr, txn[w].caller)]
    /\ last' = Resp("approve", txn[w].caller, txn[w].id, 200, "ok")
    /\ txn' = [txn EXCEPT ![w] = Idle]
    /\ UNCHANGED <<balance, payrollVars, attendanceVars>>

\* lb.save(); lr.save(); return: the transaction commits.
ApproveCommit(w) ==
    /\ txn[w].pc = "checked"
    /\ LET lr == txn[w].lr
           e == lr.employee
           out == ApproveOutcome(lr, txn[w].lb, txn[w].caller)
       IN /\ balance' = IF lr.is_paid THEN SaveBalance(balance, e, out.lb) ELSE balance
          /\ requests' = [requests EXCEPT ![txn[w].id] = out.lr]
          /\ last' = Resp("approve", txn[w].caller, txn[w].id, out.code, out.detail)
    /\ txn' = [txn EXCEPT ![w] = Idle]
    /\ UNCHANGED <<payrollVars, attendanceVars>>

\* An exception raised before the handler returns (a database error in
\* get_or_create, lb.save() or lr.save()): transaction.atomic rolls back
\* what the call has written, and the caller gets a server error.
ApproveAbort(w) ==
    /\ txn[w].pc \in {"got", "checked"}
    /\ last' = Resp("approve", txn[w].caller, txn[w].id, 500, "error")
    /\ txn' = [txn EXCEPT ![w] = Idle]
    /\ UNCHANGED <<requests, balance, payrollVars, attendanceVars>>

\* The requests validate accepts from an employee while the table is
\* empty: any type, any range with start_date <= end_date.
CreatedRequests ==
    {NewRequest(u, t, d[1], d[2]) :
        u \in EmployeeUsers, t \in LeaveTypes,
        d \in {x \in Dates \X Dates : x[1] <= x[2]}}

\* Two requests have been created and wait for HR (two requests of one
\* employee are for different ranges).
InitConc ==
    /\ \E r1 \in CreatedRequests, r2 \in CreatedRequests :
          /\ r1.employee = r2.employee
                => <<r1.start_date, r1.end_date>> # <<r2.start_date, r2.end_date>>
          /\ requests = <<r1, r2>>
    /\ balance \in InitialBalances
    /\ last = [op |-> "", caller |-> None, id |-> 0, code |-> 0, detail |-> ""]
    /\ txn = [w \in Workers |-> Idle]
    /\ payroll = [p \in Payrolls |-> NewPayroll]
    /\ jobs = [p \in Payrolls |-> 0]
    /\ gen = [w \in Workers |-> GenIdle]
    /\ AttendanceAtRest

\* Concurrent approve calls of the workers, each on a PENDING request that
\* no other worker is approving.
NextConc ==
    \/ \E w \in Workers, u \in HRUsers, id \in DOMAIN requests :
          /\ requests[id].status = "PENDING"
          /\ \A v \in Workers : txn[v].id # id
          /\ ApproveGetObject(w, u, id)
    \/ \E w \in Workers : ApproveCheckBalance(w)
    \/ \E w \in Workers : ApproveCommit(w)

SpecConc == InitConc /\ [][NextConc]_vars

\* The same calls, any of which may also fail with an exception.
NextAtomic ==
    \/ NextConc
    \/ \E w \in Workers : ApproveAbort(w)

SpecAtomic == InitConc /\ [][NextAtomic]_vars

(***************************************************************************)
(* PayrollViewSet.generate_payslip, statement by statement, and the        *)
(* background job it dispatches.                                           *)
(***************************************************************************)

\* PayrollViewSet.get_queryset: HR sees every payroll, anyone else their own.
PayrollVisible(u, p) == Role(u) = "hr" \/ PayrollEmployee(p) = EmployeeOf(u)

\* if request.user.role != "hr" and payroll.employee.user != request.user
NotOwnPayroll(u, p) == Role(u) # "hr" /\ PayrollEmployee(p) # EmployeeOf(u)

\* payroll = self.get_object() and the ownership check.
GenGetObject(w, u, p) ==
    /\ gen[w].pc = "idle"
    /\ IF ~PayrollVisible(u, p)
       THEN /\ last' = Resp("generate_payslip", u, p, 404, "not_found")
            /\ UNCHANGED gen
       ELSE IF NotOwnPayroll(u, p)
       THEN /\ last' = Resp("generate_payslip", u, p, 403, "not_allowed")
            /\ UNCHANGED gen
       ELSE /\ gen' = [gen EXCEPT ![w] = [pc |-> "got", caller |-> u,
                                           payroll |-> p, seen |-> payroll[p]]]
            /\ UNCHANGED last
    /\ UNCHANGED <<payroll, jobs, leaveVars, attendanceVars>>

\* (the flag as get_object read it, instead of the stored flag)
FlagIsClearStale(w, p) == ~gen[w].seen.is_generating

\* The row Payroll.objects.filter(id=payroll.id, is_generating=False) finds.
FlagIsClear(w, p) == ~payroll[p].is_generating

\* (a call that, on finding the flag set, clears it as it gives up)
GenCompareAndSetClearsOnLoss(w) ==
    /\ gen[w].pc = "got"
    /\ LET p == gen[w].payroll
       IN IF FlagIsClear(w, p)
          THEN /\ payroll' = [payroll EXCEPT ![p].is_generating = TRUE]
               /\ gen' = [gen EXCEPT ![w].pc = "won"]
               /\ UNCHANGED last
          ELSE /\ last' = Resp("generate_payslip", gen[w].caller, p, 400, "generating")
               /\ gen' = [gen EXCEPT ![w] = GenIdle]
               /\ payroll' = [payroll EXCEPT ![p].is_generating = FALSE]
    /\ UNCHANGED <<jobs, leaveVars, attendanceVars>>

\* updated = Payroll.objects.filter(...).update(is_generating=True); the
\* call ends here with the 400 response when no row was updated.
GenCompareAndSet(w) ==
    /\ gen[w].pc = "got"
    /\ LET p == gen[w].payroll
       IN IF FlagIsClear(w, p)
          THEN /\ payroll' = [payroll EXCEPT ![p].is_generating = TRUE]
               /\ gen' = [gen EXCEPT ![w].pc = "won"]
               /\ UNCHANGED last
          ELSE /\ last' = Resp("generate_payslip", gen[w].caller, p, 400, "generating")
               /\ gen' = [gen EXCEPT ![w] = GenIdle]
               /\ UNCHANGED payroll
    /\ UNCHANGED <<jobs, leaveVars, attendanceVars>>

\* (a call that answers "started" without handing the job over)
GenDispatchNoJob(w) ==
    /\ gen[w].pc = "won"
    /\ last' = Resp("generate_payslip", gen[w].caller, gen[w].payroll, 200, "started")
    /\ gen' = [gen EXCEPT ![w] = GenIdle]
    /\ UNCHANGED <<payroll, jobs, leaveVars, attendanceVars>>

\* generate_payslip_background(payroll.id); return Response(...)
GenDispatch(w) ==
    /\ gen[w].pc = "won"
    /\ jobs' = [jobs EXCEPT ![gen[w].payroll] = @ + 1]
    /\ last' = Resp("generate_payslip", gen[w].caller, gen[w].payroll, 200, "started")
    /\ gen' = [gen EXCEPT ![w] = GenIdle]
    /\ UNCHANGED <<payroll, leaveVars, attendanceVars>>

\* The background job ends: it attaches the payslip file, sets
\* generated_at and clears is_generating.
JobSucceeds(p) ==
    /\ jobs[p] > 0
    /\ jobs' = [jobs EXCEPT ![p] = @ - 1]
    /\ payroll' = [payroll EXCEPT ![p] = [is_generating |-> FALSE,
                                          payslip_file |-> TRUE,
                                          generated_at |-> TRUE]]
    /\ UNCHANGED <<last, gen, leaveVars, attendanceVars>>

\* The background job fails: it clears is_generating.
JobFails(p) ==
    /\ jobs[p] > 0
    /\ jobs' = [jobs EXCEPT ![p] = @ - 1]
    /\ payroll' = [payroll EXCEPT ![p].is_generating = FALSE]
    /\ UNCHANGED <<last, gen, leaveVars, attendanceVars>>

NextPayroll ==
    \/ \E w \in Workers, u \in Users, p \in Payrolls : GenGetObject(w, u, p)
    \/ \E w \in Workers : GenCompareAndSet(w)
    \/ \E w \in Workers : GenDispatch(w)
    \/ \E p \in Payrolls : JobSucceeds(p)
    \/ \E p \in Payrolls : JobFails(p)

SpecPayroll == Init /\ [][NextPayroll]_vars

\* A call that has won the guard goes on to dispatch the job and return,
\* and the job runner runs every job it was handed to its end.
PayrollFairness ==
    /\ \A w \in Workers : WF_vars(GenDispatch(w))
    /\ \A p \in Payrolls : WF_vars(JobSucceeds(p) \/ JobFails(p))

SpecPayrollFair == SpecPayroll /\ PayrollFairness

(***************************************************************************)
(* AttendanceViewSet: check_in, check_out, manual_checkout.                *)
(* Time is counted in minutes; an instant is the number of minutes since   *)
(* midnight (UTC) of day 0.                                                *)
(***************************************************************************)
MaxInstant == 2         \* the clock is read at the instants 0..MaxInstant

MinutesPerDay == 1440

\* settings.COMPANY_CONFIG["work_hours"]["start"], default "09:00".
WorkStart == 540

\* timedelta(minutes=15)
GraceMinutes == 15

\* settings.TIME_ZONE as an offset from UTC: UTC itself, or UTC+05:00.
TzOffsets == {0, 300}

\* Users with role employee for whom no Employee row exists.
NewHires == {"carol"}

\* The callers of the attendance actions: an employee, a user without an
\* Employee row, and HR; the other employee is the one HR acts for.
AttendanceCallers == {"alice"} \cup NewHires \cup HRUsers

\* Employee.pk
EmployeePk(e) == IF e = "alice" THEN 1 ELSE 2

\* request.data.get("employee_id"): the key of the other employee, a key
\* that no employee has, or 0 when the field is not sent.
UnknownEmployeeId == 3
NoEmployeeId == 0
EmployeeIds == {EmployeePk("bob"), UnknownEmployeeId, NoEmployeeId}

\* The instants at which the clock is read, in the time zone of offset z:
\* the local times 09:10, 09:15, 09:20, ... of day 1.
InstantAt(k, z) == MinutesPerDay + (WorkStart + 10 + 5 * k) - z
Instants(z) == {InstantAt(k, z) : k \in 0..MaxInstant}

\* The check_out values HR sends to manual_checkout: the first instant, or
\* NoTime when the field is not sent.
SuppliedTimes(z) == {InstantAt(0, z), NoTime}

\* now.date()
DateOf(t) == t \div MinutesPerDay

\* timezone.localtime(t)
LocalTime(t, z) == t + z

\* .time()
TimeOfDay(t) == t % MinutesPerDay

\* late_time = (work_start + timedelta(minutes=15)).time()
LateTime == TimeOfDay(WorkStart + GraceMinutes)

\* (the threshold itself counted as late)
IsLateInclusive(check_in, z) == TimeOfDay(LocalTime(check_in, z)) >= LateTime

\* local.time() > late_time
IsLate(check_in, z) == TimeOfDay(LocalTime(check_in, z)) > LateTime

\* allowed_roles_by_action of AttendanceViewSet for its three actions
\* (None: open to every authenticated role).
AttendanceAllowedRoles(action) ==
    CASE action = "manual_checkout" -> {"hr"}
      [] OTHER -> {"hr", "employee"}

\* Employee.objects.filter(pk=employee_id).first()
EmployeeByPk(pk) ==
    IF \E e \in Employees : EmployeePk(e) = pk
    THEN CHOOSE e \in Employees : EmployeePk(e) = pk
    ELSE None

\* (the employee_id of the request honoured for every caller)
TargetEmployeeAnyRole(u, eid) ==
    IF eid # NoEmployeeId THEN EmployeeByPk(eid) ELSE EmployeeOf(u)

\* The employee check_in and check_out act on, None when there is none.
TargetEmployee(u, eid) ==
    IF Role(u) = "hr" /\ eid # NoEmployeeId THEN EmployeeByPk(eid) ELSE EmployeeOf(u)

\* The response when there is none.
NoEmployee(op, u, eid) ==
    IF Role(u) = "hr" /\ eid # NoEmployeeId
    THEN Resp(op, u, eid, 404, "employee_not_found")
    ELSE Resp(op, u, eid, 400, "profile_missing")

\* Attendance.objects.filter(employee=e, date=d).first(): the id of the
\* matching row of lowest id, 0 when there is none.
AttFind(tbl, e, d) ==
    LET ids == {i \in 1..Len(tbl) : tbl[i].employee = e /\ tbl[i].date = d}
    IN IF ids = {} THEN 0 ELSE CHOOSE i \in ids : \A j \in ids : i <= j

\* (a check_in that is accepted again and overwrites the stored check_in)
StoredCheckInNever(row) == NoTime

\* att.check_in, as "if not created and att.check_in" reads it.
StoredCheckIn(row) == row.check_in

\* (a get_or_create whose defaults carry no status)
NewAttendanceNoStatus(e, d, t) ==
    [employee |-> e, date |-> d, check_in |-> t, check_out |-> NoTime,
     status |-> ""]

\* The row get_or_create inserts: defaults check_in = now, status "present".
NewAttendance(e, d, t) ==
    [employee |-> e, date |-> d, check_in |-> t, check_out |-> NoTime,
     status |-> "present"]

\* att.check_in = now; if not att.status: att.status = "present"
BackFilled(row, t) ==
    [row EXCEPT !.check_in = t, !.status = IF @ = "" THEN "present" ELSE @]

CheckIn(u, eid) ==
    /\ LET e == TargetEmployee(u, eid)
           today == DateOf(now)
           i == AttFind(attendance, e, today)
       IN IF e = None
          THEN /\ last' = NoEmployee("check_in", u, eid)
               /\ UNCHANGED attendance
          ELSE IF i = 0
          THEN /\ attendance' = Append(attendance, NewAttendance(e, today, now))
               /\ last' = Resp("check_in", u, eid, 200, "ok")
          ELSE IF StoredCheckIn(attendance[i]) # NoTime
          THEN /\ last' = Resp("check_in", u, eid, 400, "already_checked_in")
               /\ UNCHANGED attendance
          ELSE /\ attendance' = [attendance EXCEPT ![i] = BackFilled(@, now)]
               /\ last' = Resp("check_in", u, eid, 200, "ok")
    /\ UNCHANGED <<now, tz, att, leaveVars, payrollVars>>

\* att.check_out = now and the status derived from the check-in time.
CheckedOut(row, t, z) ==
    [row EXCEPT !.check_out = t,
                !.status = IF IsLate(row.check_in, z) THEN "late" ELSE "present"]

\* (a check_out that is accepted again on a record already checked out)
AlreadyCheckedOutNever(row) == FALSE

\* if att.check_out
AlreadyCheckedOut(row) == row.check_out # NoTime

CheckOut(u, eid) ==
    /\ LET e == TargetEmployee(u, eid)
           today == DateOf(now)
           i == AttFind(attendance, e, today)
       IN IF e = None
          THEN /\ last' = NoEmployee("check_out", u, eid)
               /\ UNCHANGED attendance
          ELSE IF i = 0 \/ attendance[i].check_in = NoTime
          THEN /\ last' = Resp("check_out", u, eid, 400, "no_check_in")
               /\ UNCHANGED attendance
          ELSE IF AlreadyCheckedOut(attendance[i])
          THEN /\ last' = Resp("check_out", u, eid, 400, "already_checked_out")
               /\ UNCHANGED attendance
          ELSE IF attendance[i].check_in > now
          THEN /\ last' = Resp("check_out", u, eid, 400, "before_check_in")
               /\ UNCHANGED attendance
          ELSE /\ attendance' = [attendance EXCEPT ![i] = CheckedOut(@, now, tz)]
               /\ last' = Resp("check_out", u, eid, 200, "ok")
    /\ UNCHANGED <<now, tz, att, leaveVars, payrollVars>>

\* (a manual correction that refuses a check_out before the check_in)
ManuallyCheckedOutInOrder(row, v) ==
    IF v >= row.check_in
    THEN [row EXCEPT !.check_out = v, !.status = "present"]
    ELSE row

\* attendance.check_out = checkout_time; attendance.status = "present"
ManuallyCheckedOut(row, v) == [row EXCEPT !.check_out = v, !.status = "present"]

\* v is the check_out value of the request, NoTime when none is sent.
ManualCheckout(u, id, v) ==
    /\ IF Role(u) \notin AttendanceAllowedRoles("manual_checkout")
       THEN /\ last' = Resp("manual_checkout", u, id, 403, "forbidden")
            /\ UNCHANGED attendance
       ELSE IF id \notin 1..Len(attendance)
       THEN /\ last' = Resp("manual_checkout", u, id, 404, "not_found")
            /\ UNCHANGED attendance
       ELSE IF v = NoTime
       THEN /\ last' = Resp("manual_checkout", u, id, 400, "check_out_required")
            /\ UNCHANGED attendance
       ELSE /\ attendance' = [attendance EXCEPT ![id] = ManuallyCheckedOut(@, v)]
            /\ last' = Resp("manual_checkout", u, id, 200, "ok")
    /\ UNCHANGED <<now, tz, att, leaveVars, payrollVars>>

\* Time passes.
Tick ==
    /\ \E t \in Instants(tz) : t > now /\ now' = t
    /\ UNCHANGED <<attendance, tz, att, last, leaveVars, payrollVars>>

\* The Attendance table at the first instant: empty; or holding one row
\* that HR entered for the day through the CRUD endpoints, without a
\* check_in and a status, or with the check_in expected later in the day;
\* or holding the row of an employee who checked in the day before, at the
\* same time of day, and did not check out.
InitialAttendance(z) ==
    LET first == InstantAt(0, z)
    IN {<<>>}
       \cup {<<[employee |-> e, date |-> DateOf(first), check_in |-> NoTime,
                check_out |-> NoTime, status |-> ""]>> : e \in Employees}
       \cup {<<NewAttendance(e, DateOf(first), t)>> :
               e \in Employees, t \in {x \in Instants(z) : x > first}}
       \cup {<<NewAttendance(e, DateOf(first) - 1, first - MinutesPerDay)>> :
               e \in Employees}

InitAttendance ==
    /\ requests = <<>>
    /\ balance = <<>>
    /\ last = [op |-> "", caller |-> None, id |-> 0, code |-> 0, detail |-> ""]
    /\ txn = [w \in Workers |-> Idle]
    /\ payroll = [p \in Payrolls |-> NewPayroll]
    /\ jobs = [p \in Payrolls |-> 0]
    /\ gen = [w \in Workers |-> GenIdle]
    /\ tz \in TzOffsets
    /\ attendance \in InitialAttendance(tz)
    /\ now = InstantAt(0, tz)
    /\ att = [w \in Workers |-> AttIdle]

NextAttendance ==
    \/ Tick
    \/ \E u \in AttendanceCallers, eid \in EmployeeIds : CheckIn(u, eid)
    \/ \E u \in AttendanceCallers, eid \in EmployeeIds : CheckOut(u, eid)
    \/ \E u \in AttendanceCallers, id \in 1..(Len(attendance) + 1),
          v \in SuppliedTimes(tz) : ManualCheckout(u, id, v)

SpecAttendance == InitAttendance /\ [][NextAttendance]_vars

(***************************************************************************)
(* check_in, statement by statement, for concurrent calls.  get_or_create  *)
(* is a SELECT followed, when no row matches, by an INSERT; the handler    *)
(* runs in no transaction, so each statement is visible at once.           *)
(***************************************************************************)

\* (an Attendance table without the unique constraint)
NoUniqueConstraint(tbl, e, d) == FALSE

\* The INSERT of a second row for (employee, date) violates the unique
\* constraint of the table.
UniqueViolation(tbl, e, d) == AttFind(tbl, e, d) # 0

\* now = timezone.now(), the target employee, and the SELECT of
\* get_or_create; with a row found the call goes on as "not created".
CheckInStart(w, u, eid) ==
    /\ att[w].pc = "idle"
    /\ LET e == TargetEmployee(u, eid)
           i == AttFind(attendance, e, DateOf(now))
       IN IF e = None
          THEN /\ last' = NoEmployee("check_in", u, eid)
               /\ UNCHANGED att
          ELSE IF i = 0
          THEN /\ att' = [att EXCEPT ![w] = [pc |-> "create", caller |-> u, eid |-> eid,
                                             employee |-> e, now |-> now, id |-> 0,
                                             row |-> NoAttendance]]
               /\ UNCHANGED last
          ELSE IF StoredCheckIn(attendance[i]) # NoTime
          THEN /\ last' = Resp("check_in", u, eid, 400, "already_checked_in")
               /\ UNCHANGED att
          ELSE /\ att' = [att EXCEPT ![w] = [pc |-> "save", caller |-> u, eid |-> eid,
                                             employee |-> e, now |-> now, id |-> i,
                                             row |-> attendance[i]]]
               /\ UNCHANGED last
    /\ UNCHANGED <<attendance, now, tz, leaveVars, payrollVars>>

\* The INSERT of get_or_create.  When another call has inserted the row in
\* between, the INSERT fails on the unique constraint and get_or_create
\* returns the row that is there, as "not created".
CheckInCreate(w) ==
    /\ att[w].pc = "create"
    /\ LET e == att[w].employee
           d == DateOf(att[w].now)
           i == AttFind(attendance, e, d)
       IN IF ~UniqueViolation(attendance, e, d)
          THEN /\ attendance' = Append(attendance, NewAttendance(e, d, att[w].now))
               /\ att' = [att EXCEPT ![w].pc = "save", ![w].id = Len(attendance) + 1,
                                     ![w].row = NewAttendance(e, d, att[w].now)]
               /\ UNCHANGED last
          ELSE IF StoredCheckIn(attendance[i]) # NoTime
          THEN /\ last' = Resp("check_in", att[w].caller, att[w].eid, 400,
                                "already_checked_in")
               /\ att' = [att EXCEPT ![w] = AttIdle]
               /\ UNCHANGED attendance
          ELSE /\ att' = [att EXCEPT ![w].pc = "save", ![w].id = i,
                                     ![w].row = attendance[i]]
               /\ UNCHANGED <<attendance, last>>
    /\ UNCHANGED <<now, tz, leaveVars, payrollVars>>

\* att.check_in = now; the status; att.save(), which writes the row as the
\* call holds it; return.
CheckInSave(w) ==
    /\ att[w].pc = "save"
    /\ attendance' = [attendance EXCEPT ![att[w].id] = BackFilled(att[w].row, att[w].now)]
    /\ last' = Resp("check_in", att[w].caller, att[w].eid, 200, "ok")
    /\ att' = [att EXCEPT ![w] = AttIdle]
    /\ UNCHANGED <<now, tz, leaveVars, payrollVars>>

\* Concurrent check_in calls of the workers within one reading of the
\* clock, with check_out and manual_checkout calls in between, made by the
\* callers who have an employee to act for.
NextCheckIn ==
    \/ \E w \in Workers, u \in AttendanceCallers \ NewHires, eid \in EmployeeIds :
          CheckInStart(w, u, eid)
    \/ \E w \in Workers : CheckInCreate(w)
    \/ \E w \in Workers : CheckInSave(w)
    \/ \E u \in AttendanceCallers \ NewHires, eid \in EmployeeIds : CheckOut(u, eid)
    \/ \E u \in HRUsers, id \in 1..Len(attendance), v \in SuppliedTimes(tz) :
          ManualCheckout(u, id, v)

SpecCheckIn == InitAttendance /\ [][NextCheckIn]_vars

\* The Attendance table is empty at the first instant: no row was entered
\* or edited by HR.
InitInOut ==
    /\ InitAttendance
    /\ attendance = <<>>

\* check_in and check_out calls alone while time passes, made by an
\* employee and by HR, for themselves or with the key of the other
\* employee, the check_in calls of the workers running statement by
\* statement.
NextInOut ==
    \/ Tick
    \/ \E w \in Workers, u \in AttendanceCallers \ NewHires,
          eid \in EmployeeIds \ {UnknownEmployeeId} : CheckInStart(w, u, eid)
    \/ \E w \in Workers : CheckInCreate(w)
    \/ \E w \in Workers : CheckInSave(w)
    \/ \E u \in AttendanceCallers \ NewHires,
          eid \in EmployeeIds \ {UnknownEmployeeId} : CheckOut(u, eid)

SpecInOut == InitInOut /\ [][NextInOut]_vars

(***************************************************************************)
(* Properties                                                              *)
(***************************************************************************)
Terminal == {"APPROVED", "REJECTED", "CANCELLED"}

\* The counter a CASUAL or SICK request is charged to, and the other one.
Charged(lr, lb) == IF lr.type = "CASUAL" THEN lb.casual ELSE lb.sick
NotCharged(lr, lb) == IF lr.type = "CASUAL" THEN lb.sick ELSE lb.casual

\* The request the last call (the call of this step) was made on, before it.
Target == requests[last'.id]

\* No counter of any employee differs between the two states of a step.
CountersUnchanged ==
    \A e \in Employees : GetOrCreate(balance', e) = GetOrCreate(balance, e)

\* C1: every approve of a paid CASUAL or SICK request whose employee's
\* counter for that type is at least the request's days leaves the request
\* APPROVED, that counter lower by exactly days, the employee's other
\* counter as it was, and every other employee's counters as they were.
C1_ApproveDebitsExactlyDays ==
    [][(/\ last'.op = "approve"
        /\ Target.is_paid /\ Target.type \in {"CASUAL", "SICK"}
        /\ Charged(Target, GetOrCreate(balance, Target.employee)) >= Days(Target))
       => (/\ last'.code = 200
           /\ requests'[last'.id].status = "APPROVED"
           /\ Charged(Target, GetOrCreate(balance', Target.employee))
                = Charged(Target, GetOrCreate(balance, Target.employee)) - Days(Target)
           /\ NotCharged(Target, GetOrCreate(balance', Target.employee))
                = NotCharged(Target, GetOrCreate(balance, Target.employee))
           /\ \A e \in Employees \ {Target.employee} :
                GetOrCreate(balance', e) = GetOrCreate(balance, e))]_vars

\* C1 witness: a CASUAL request was just approved and its days are missing
\* from the casual counter of its employee and of nobody else.
C1_Witness ==
    /\ last.op = "approve" /\ last.code = 200
    /\ LET lr == requests[last.id]
       IN /\ lr.type = "CASUAL" /\ lr.is_paid /\ lr.status = "APPROVED"
          /\ Days(lr) = 2
          /\ \A e \in Employees : e \in DOMAIN balance
          /\ balance[lr.employee].casual + 2 = balance[lr.employee].sick
          /\ \A e \in Employees \ {lr.employee} : balance[e].casual = balance[e].sick

\* C2: every approve of a paid CASUAL or SICK request whose employee's
\* counter for that type is below the request's days answers with the
\* insufficient-balance error and leaves every counter and the stored
\* request (status and action_by included) as they were.
C2_InsufficientChangesNothing ==
    [][(/\ last'.op = "approve"
        /\ Target.is_paid /\ Target.type \in {"CASUAL", "SICK"}
        /\ Charged(Target, GetOrCreate(balance, Target.employee)) < Days(Target))
       => (/\ last'.code = 400 /\ last'.detail = "insufficient"
           /\ CountersUnchanged
           /\ requests' = requests)]_vars

\* C2 witness: an approve of a pending 2-day SICK request was just refused
\* for lack of balance.
C2_Witness ==
    /\ last.op = "approve" /\ last.detail = "insufficient"
    /\ requests[last.id].type = "SICK" /\ requests[last.id].status = "PENDING"
    /\ Days(requests[last.id]) = 2
    /\ GetOrCreate(balance, requests[last.id].employee).sick = 1

\* C3: an approve of a request that is already APPROVED is refused and
\* debits nothing (so no request is ever charged more than its days).
C3_NoDoubleDebit ==
    [][(last'.op = "approve" /\ Target.status = "APPROVED")
       => (last'.code = 400 /\ CountersUnchanged)]_vars

\* C4: a request whose status is APPROVED, REJECTED or CANCELLED keeps that
\* status in every later step.
C4_TerminalIsAbsorbing ==
    [][\A id \in 1..Len(requests) :
         requests[id].status \in Terminal
           => requests'[id].status = requests[id].status]_vars

\* C7: a cancel by a caller who does not own the request is answered with
\* the not-allowed error (403), a cancel of a request that is not PENDING
\* with the invalid-state error, and only a cancel of a PENDING request by
\* its owner succeeds.
C7_CancelErrors ==
    last.op = "cancel" =>
        LET lr == requests[last.id]
        IN /\ NotOwner(lr, last.caller) => last.code = 403
           /\ last.code = 200 => ~NotOwner(lr, last.caller) /\ lr.status = "CANCELLED"

\* C5: concurrent approvals against one balance serialize: an approve
\* that commits was decided on the balance row as it is stored when it
\* commits (no stale check), and its commit lowers the stored counter by
\* exactly its days (no lost update), so the counter ends at its initial
\* value minus the days of the approved requests.
C5_ApprovalsSerialize ==
    [][\A w \in Workers :
         (/\ txn[w].pc = "checked" /\ txn'[w].pc = "idle"
          /\ txn[w].lr.is_paid /\ txn[w].lr.type \in {"CASUAL", "SICK"})
         => LET lr == txn[w].lr
                e == lr.employee
            IN /\ txn[w].lb = GetOrCreate(balance, e)
               /\ Charged(lr, GetOrCreate(balance', e))
                    = Charged(lr, GetOrCreate(balance, e)) - Days(lr)]_vars

\* Payslip jobs of a payroll that are in flight: dispatched and not yet
\* finished, or about to be dispatched by the call that won the guard.
InFlight(p) ==
    jobs[p] + Cardinality({w \in Workers : gen[w].pc = "won" /\ gen[w].payroll = p})

\* C6: of the concurrent generate-payslip calls on one payroll exactly one
\* flips is_generating and dispatches a job: at most one job per payroll
\* is in flight, and one is in flight exactly while is_generating is true;
\* a call answered "started" has a job or a finished job behind it, a call
\* answered "generating" left the jobs as they were.
C6_SingleFlight ==
    \A p \in Payrolls :
        /\ InFlight(p) <= 1
        /\ payroll[p].is_generating <=> InFlight(p) = 1

\* C6 witness: two calls on pay1 overlapped; one won and its job is in
\* flight, the other one was just told that the payslip is being generated.
C6_Witness ==
    /\ last.op = "generate_payslip" /\ last.id = "pay1" /\ last.detail = "generating"
    /\ jobs["pay1"] = 1 /\ payroll["pay1"].is_generating
    /\ \A w \in Workers : gen[w].pc = "idle"

\* Two stored requests are of the same employee for the same date range.
SameRange(a, b) ==
    /\ a.employee = b.employee
    /\ a.start_date = b.start_date /\ a.end_date = b.end_date

\* C8: a create is accepted only if the employee has no PENDING, APPROVED
\* or REJECTED request for exactly the same (start_date, end_date); hence
\* an employee never has two requests that are not CANCELLED for one range.
C8_NoDuplicateRange ==
    /\ (last.op = "create" /\ last.code = 201) =>
          \A j \in 1..Len(requests) :
             (j # last.id /\ SameRange(requests[j], requests[last.id]))
                => requests[j].status \notin {"PENDING", "APPROVED", "REJECTED"}
    /\ \A i, j \in 1..Len(requests) :
          (i < j /\ SameRange(requests[i], requests[j]))
             => (requests[i].status = "CANCELLED" \/ requests[j].status = "CANCELLED")

\* C9: no counter of a LeaveBalance row is ever negative.
C9_BalanceNeverNegative ==
    \A e \in DOMAIN balance : balance[e].casual >= 0 /\ balance[e].sick >= 0

\* C9 witness: an approve has just used up the whole casual allowance.
C9_Witness ==
    /\ last.op = "approve" /\ last.code = 200
    /\ requests[last.id].type = "CASUAL" /\ Days(requests[last.id]) = 2
    /\ balance[requests[last.id].employee].casual = 0

\* C10: a step that changes a counter of some employee is a successful
\* approve of a paid request; create, reject, cancel and a refused approve
\* change none.
C10_OnlyApproveDebits ==
    [][~CountersUnchanged
       => (last'.op = "approve" /\ last'.code = 200 /\ Target.is_paid)]_vars

\* C10 witness: a request was just cancelled by its owner while balances
\* exist, and a create, a reject and a refused approve are witnessed alike.
C10_Witness ==
    /\ last.op = "cancel" /\ last.code = 200
    /\ requests[last.id].status = "CANCELLED"
    /\ Employees \subseteq DOMAIN balance
    /\ \A e \in Employees : balance[e].casual = MaxBalance /\ balance[e].sick = MaxBalance

\* The step stores status APPROVED on request id.
BecomesApproved(id) ==
    requests[id].status # "APPROVED" /\ requests'[id].status = "APPROVED"

\* C11: approve is atomic.  The step that stores APPROVED on a paid CASUAL
\* or SICK request also stores the balance row of that approve with the
\* days debited; a step that changes a counter of an employee stores
\* APPROVED on a paid request of that employee; and an approve that ends
\* in an error (refused for lack of balance, or an exception at any
\* statement) stores neither.
C11_ApproveIsAtomic ==
    [][/\ \A id \in DOMAIN requests :
            (/\ BecomesApproved(id)
             /\ requests[id].is_paid /\ requests[id].type \in {"CASUAL", "SICK"})
            => \E w \in Workers :
                  /\ txn[w].id = id /\ txn[w].pc = "checked"
                  /\ GetOrCreate(balance', requests[id].employee)
                        = Debit(requests[id], txn[w].lb)
       /\ \A e \in Employees :
            GetOrCreate(balance', e) # GetOrCreate(balance, e)
            => \E id \in DOMAIN requests :
                  /\ requests[id].employee = e /\ requests[id].is_paid
                  /\ BecomesApproved(id)
       /\ \A w \in Workers :
            (txn[w].pc # "idle" /\ txn'[w].pc = "idle" /\ last'.code # 200)
            => (requests' = requests /\ CountersUnchanged)]_vars

\* C11 witness: of two overlapping approvals of requests of one employee,
\* one committed (request APPROVED, its days off the counter) and the other
\* one then failed with an exception, leaving its request PENDING and the
\* counter where the first left it.
C11_Witness ==
    /\ last.op = "approve" /\ last.code = 500
    /\ \E i, j \in DOMAIN requests :
          /\ i # j /\ last.id = j
          /\ requests[i].employee = requests[j].employee
          /\ requests[i].type = "CASUAL" /\ requests[j].type = "CASUAL"
          /\ requests[i].status = "APPROVED" /\ Days(requests[i]) = 1
          /\ requests[j].status = "PENDING"
          /\ GetOrCreate(balance, requests[i].employee).casual = MaxBalance - 1

\* The step is a call of the attendance action op (the clock stands still
\* while a handler runs).
IsCall(op) == now' = now /\ last'.op = op

\* The employee the call of this step acts on, and the id of that
\* employee's row for today before the call, 0 when there is none.
CallEmployee == TargetEmployee(last'.caller, last'.id)
CallRow == AttFind(attendance, CallEmployee, DateOf(now))

\* C12: a check-in for an employee who has no record for today appends the
\* record (employee, today) with check_in = now, no check_out and status
\* present, and changes no other record; a check-in for an employee whose
\* record for today has check_in set, checked out or not, is answered with
\* the already-checked-in error and leaves the table as it was; a check-in
\* on a record without check_in sets check_in = now and nothing else but
\* an unset status.
C12_CheckInOnce ==
    [][(IsCall("check_in") /\ CallEmployee # None)
       => /\ CallRow = 0 =>
               /\ last'.code = 200
               /\ attendance' = Append(attendance,
                     [employee |-> CallEmployee, date |-> DateOf(now),
                      check_in |-> now, check_out |-> NoTime, status |-> "present"])
          /\ (CallRow # 0 /\ attendance[CallRow].check_in # NoTime) =>
               /\ last'.code = 400 /\ last'.detail = "already_checked_in"
               /\ attendance' = attendance
          /\ (CallRow # 0 /\ attendance[CallRow].check_in = NoTime) =>
               /\ last'.code = 200
               /\ attendance' = [attendance EXCEPT
                     ![CallRow].check_in = now,
                     ![CallRow].status = IF @ = "" THEN "present" ELSE @]]_vars

\* C12 witness: alice checked in at 09:20 and checked out, and her second
\* check-in of the day was just refused: the record still shows the first
\* check_in, the check_out and the status late.
C12_Witness ==
    /\ last.op = "check_in" /\ last.caller = "alice"
    /\ last.code = 400 /\ last.detail = "already_checked_in"
    /\ \E i \in 1..Len(attendance) :
          /\ attendance[i].employee = "alice" /\ attendance[i].date = DateOf(now)
          /\ attendance[i].check_in = InstantAt(2, tz)
          /\ attendance[i].check_out = now
          /\ attendance[i].status = "late"

\* C13: a successful check-out stores check_out = now and the status late
\* if and only if the time of day of the record's check_in, in the local
\* time zone, is strictly later than work_start + 15 minutes, otherwise
\* present; it leaves the check_in as it was, so the status is a function
\* of the check-in alone (with work_start 09:00: 09:20 is late, 09:10 and
\* 09:15 are present).
C13_LateIffCheckInAfterGrace ==
    [][(IsCall("check_out") /\ last'.code = 200)
       => /\ CallRow # 0
          /\ attendance'[CallRow].check_out = now
          /\ attendance'[CallRow].check_in = attendance[CallRow].check_in
          /\ attendance'[CallRow].status \in {"late", "present"}
          /\ attendance'[CallRow].status = "late"
               <=> ((attendance[CallRow].check_in + tz) % MinutesPerDay)
                      > WorkStart + GraceMinutes]_vars

\* C13 witness: in the zone UTC+05:00 alice checked in at 09:15 local time
\* (04:15 UTC) and has just checked out at 09:20: the status is present.
C13_Witness ==
    /\ last.op = "check_out" /\ last.code = 200 /\ tz = 300
    /\ \E i \in 1..Len(attendance) :
          /\ attendance[i].employee = "alice" /\ attendance[i].date = DateOf(now)
          /\ attendance[i].check_in % MinutesPerDay = 4 * 60 + 15
          /\ attendance[i].check_out = now
          /\ now = attendance[i].check_in + 5
          /\ attendance[i].status = "present"

\* C14: a check-out for an employee who has no record for today, or whose
\* record for today has no check_in, or has a check_out already, or has a
\* check_in later than now, is answered with an error and leaves the
\* table as it was: no record is changed and none is created.
C14_CheckOutFailures ==
    [][(/\ IsCall("check_out") /\ CallEmployee # None
        /\ \/ CallRow = 0
           \/ attendance[CallRow].check_in = NoTime
           \/ attendance[CallRow].check_out # NoTime
           \/ attendance[CallRow].check_in > now)
       => /\ last'.code = 400
          /\ last'.detail \in {"no_check_in", "already_checked_out", "before_check_in"}
          /\ attendance' = attendance]_vars

\* C14 witness: alice, who checked in at 09:15 and out at once, was just
\* refused a second check-out five minutes later: the record keeps the
\* first check_out and the status present.
C14_Witness ==
    /\ last.op = "check_out" /\ last.caller = "alice"
    /\ last.code = 400 /\ last.detail = "already_checked_out"
    /\ \E i \in 1..Len(attendance) :
          /\ attendance[i].employee = "alice" /\ attendance[i].date = DateOf(now)
          /\ attendance[i].check_in = InstantAt(1, tz)
          /\ attendance[i].check_out = InstantAt(1, tz)
          /\ now = InstantAt(2, tz)
          /\ attendance[i].status = "present"

UniqueKeys ==
    \A i, j \in 1..Len(attendance) :
        (attendance[i].employee = attendance[j].employee
         /\ attendance[i].date = attendance[j].date) => i = j

\* The step removes no row and leaves every row with its employee and date.
NoRowDeleted ==
    /\ Len(attendance') >= Len(attendance)
    /\ \A i \in 1..Len(attendance) :
          /\ attendance'[i].employee = attendance[i].employee
          /\ attendance'[i].date = attendance[i].date

\* C16: in every state reached by interleaved check-in, check-out and
\* manual-checkout calls, two first check-ins of one employee running
\* together included, there is at most one Attendance row per (employee,
\* date), and no step deletes a row.
C16_OneRecordPerDay == []UniqueKeys /\ [][NoRowDeleted]_vars

\* C16 witness: two check-ins for bob ran together; the one that inserted
\* the row has not returned yet, the other one was refused, and the table
\* holds the one row for bob.
C16_Witness ==
    /\ \E w \in Workers : att[w].pc = "save" /\ att[w].employee = "bob" /\ att[w].id = 1
    /\ last.op = "check_in" /\ last.id = EmployeePk("bob") /\ last.detail = "already_checked_in"
    /\ Len(attendance) = 1 /\ attendance[1].employee = "bob"

\* C17: a create with start_date > end_date is answered with a validation
\* error and stores nothing; hence every stored leave request has
\* start_date <= end_date.
C17_InvertedRangeRejected ==
    /\ [][\A u \in Users, t \in LeaveTypes, s \in Dates, e \in Dates :
            (s > e /\ Create(u, t, s, e))
            => (last'.code = 400 /\ requests' = requests /\ balance' = balance)]_vars
    /\ [](\A i \in 1..Len(requests) : requests[i].start_date <= requests[i].end_date)

\* C17 witness: alice's create with an inverted range was just refused,
\* and the table holds nothing.
C17_Witness ==
    /\ last.op = "create" /\ last.caller = "alice"
    /\ last.code = 400 /\ last.detail = "bad_range"
    /\ requests = <<>>

\* C18: a request that was just created has status PENDING and has
\* is_paid = false if and only if its type is UNPAID (so that approve
\* debits nothing for an UNPAID request and checks the balance for a
\* CASUAL or SICK one).
C18_UnpaidIffNotPaid ==
    (last.op = "create" /\ last.code = 201)
    => LET lr == requests[last.id]
       IN /\ lr.status = "PENDING"
          /\ lr.is_paid = FALSE <=> lr.type = "UNPAID"

\* C19: a manual_checkout by HR on any existing record, with a check_out
\* value sent, stores that value as check_out and the status present and
\* changes nothing else, whatever the record holds (no check_in, a
\* check_out already, a check_in later than the value, the status late);
\* without a check_out value it is answered with an error and the table
\* stays as it was.
C19_ManualCheckoutOverrides ==
    [][IsCall("manual_checkout")
       => \A u \in HRUsers, id \in 1..Len(attendance), v \in SuppliedTimes(tz) :
             ManualCheckout(u, id, v)
             => IF v = NoTime
                THEN last'.code = 400 /\ attendance' = attendance
                ELSE /\ last'.code = 200
                     /\ attendance' = [attendance EXCEPT ![id].check_out = v,
                                                         ![id].status = "present"]]_vars

\* C19 witness: alice checked in at 09:20 (late once checked out), and HR
\* has just set her check_out to 09:10, before the check_in: the status is
\* present.
C19_Witness ==
    /\ last.op = "manual_checkout" /\ last.caller \in HRUsers /\ last.code = 200
    /\ attendance[last.id].employee = "alice"
    /\ attendance[last.id].check_in = InstantAt(2, tz)
    /\ attendance[last.id].check_out = InstantAt(0, tz)
    /\ attendance[last.id].status = "present"

\* The rows of the Attendance table that the step creates or changes.
RowsTouched ==
    {i \in 1..Len(attendance') : i > Len(attendance) \/ attendance'[i] # attendance[i]}

\* C20: a check-in or check-out by a caller who is not HR creates or
\* changes no row but rows of the caller's own employee, whatever
\* employee_id the request carries; an HR call with an employee_id that no
\* employee has is answered not-found, a call by a caller who is not HR
\* and has no employee record is answered with an error, and both leave
\* the table as it was.
C20_TargetEmployee ==
    [][(IsCall("check_in") \/ IsCall("check_out"))
       => /\ Role(last'.caller) # "hr" =>
               \A i \in RowsTouched :
                  attendance'[i].employee = EmployeeOf(last'.caller)
          /\ (/\ Role(last'.caller) = "hr"
              /\ last'.id # NoEmployeeId
              /\ \A e \in Employees : EmployeePk(e) # last'.id) =>
               (last'.code = 404 /\ attendance' = attendance)
          /\ (Role(last'.caller) # "hr" /\ EmployeeOf(last'.caller) = None) =>
               (last'.code = 400 /\ attendance' = attendance)]_vars

\* C20 witness: alice has just checked in with bob's employee_id in the
\* request: the row created is hers, and bob has none.
C20_Witness ==
    /\ last.op = "check_in" /\ last.caller = "alice"
    /\ last.id = EmployeePk("bob") /\ last.code = 200
    /\ Len(attendance) = 1
    /\ attendance[1].employee = "alice" /\ attendance[1].check_in = now

\* The step ends a payslip job of payroll p.
JobEnds(p) == jobs'[p] < jobs[p]

\* C21: a generate-payslip call that does not win the guard changes
\* nothing.  A call that finds is_generating = true is answered with an
\* error, and a call by a non-HR user who does not own the payroll never
\* gets past the lookup; each leaves is_generating, payslip_file and
\* generated_at of every payroll as they were and dispatches no job.  The
\* only thing a generate-payslip call ever writes is the flip of
\* is_generating from false to true by the call that wins; it is never the
\* step that sets is_generating to false (that is the end of a job).
C21_LosingCallChangesNothing ==
    [][/\ \A w \in Workers :
            (/\ gen[w].pc = "got" /\ gen'[w] # gen[w]
             /\ payroll[gen[w].payroll].is_generating)
            => /\ last'.code = 400 /\ gen'[w].pc = "idle"
               /\ payroll' = payroll /\ jobs' = jobs
       /\ (last' # last /\ last'.code # 200) => (payroll' = payroll /\ jobs' = jobs)
       /\ \A w \in Workers :
            gen'[w].pc # "idle"
            => (Role(gen'[w].caller) = "hr"
                \/ PayrollEmployee(gen'[w].payroll) = EmployeeOf(gen'[w].caller))
       /\ \A p \in Payrolls :
            /\ (payroll[p].is_generating /\ ~payroll'[p].is_generating) => JobEnds(p)
            /\ (payroll'[p] # payroll[p] /\ ~JobEnds(p))
               => /\ payroll'[p] = [payroll[p] EXCEPT !.is_generating = TRUE]
                  /\ \E w \in Workers :
                        /\ gen[w].payroll = p
                        /\ gen[w].pc = "got" /\ gen'[w].pc = "won"
            /\ jobs'[p] > jobs[p]
               => \E w \in Workers :
                     /\ gen[w].payroll = p
                     /\ gen[w].pc = "won" /\ gen'[w].pc = "idle"]_vars

\* C21 witness: pay1 has a payslip from a first generation and a second
\* generation in flight, and bob, who is not HR and does not own pay1, has
\* just been refused on it: the flag is still set, the file and the
\* timestamp are those of the first generation, and one job is in flight.
C21_Witness ==
    /\ last.op = "generate_payslip" /\ last.caller = "bob" /\ last.id = "pay1"
    /\ last.code \in {403, 404}
    /\ payroll["pay1"] = [is_generating |-> TRUE, payslip_file |-> TRUE,
                          generated_at |-> TRUE]
    /\ jobs["pay1"] = 1
    /\ \A w \in Workers : gen[w].pc = "idle"

\* What the stored action_by of a request must be, given its status.
ActorMatchesStatus(lr) ==
    /\ lr.status \in {"PENDING", "CANCELLED"} => lr.action_by = None
    /\ lr.status \in {"APPROVED", "REJECTED"} => lr.action_by \in HRUsers

\* The step stores a new status or a new action_by on request id.
ActorOrStatusWritten(id) ==
    \/ requests'[id].action_by # requests[id].action_by
    \/ requests'[id].status # requests[id].status

\* C22: in every state reached by create, approve, reject and cancel
\* calls, a request that is PENDING or CANCELLED has no action_by and a
\* request that is APPROVED or REJECTED has the action_by of an HR user;
\* the step that stores APPROVED or REJECTED is a successful approve or
\* reject of that request and stores its caller, an HR user, as action_by;
\* no other step writes action_by; and an approve that fails (forbidden,
\* or refused for lack of balance) stores nothing on any request.
C22_ActorRecorded ==
    /\ [](\A id \in 1..Len(requests) : ActorMatchesStatus(requests[id]))
    /\ [][/\ \A id \in 1..Len(requests) :
               /\ (ActorOrStatusWritten(id) /\ requests'[id].status # "CANCELLED")
                  => /\ last'.op \in {"approve", "reject"}
                     /\ last'.code = 200 /\ last'.id = id
                     /\ Role(last'.caller) = "hr"
                     /\ requests'[id].action_by = last'.caller
                     /\ requests'[id].status
                           = IF last'.op = "approve" THEN "APPROVED" ELSE "REJECTED"
               /\ (ActorOrStatusWritten(id) /\ requests'[id].status = "CANCELLED")
                  => /\ last'.op = "cancel" /\ last'.code = 200 /\ last'.id = id
                     /\ requests'[id].action_by = requests[id].action_by
          /\ (last'.op \in {"approve", "reject"} /\ last'.code = 200)
             => requests'[last'.id].action_by = last'.caller
          /\ (last'.op = "approve" /\ last'.code # 200) => requests' = requests]_vars

\* C22 witness: HR was just refused the approve of a pending 2-day CASUAL
\* request for lack of balance, and the request is PENDING with no
\* action_by.
C22_Witness ==
    /\ last.op = "approve" /\ last.caller \in HRUsers
    /\ last.code = 400 /\ last.detail = "insufficient"
    /\ requests[last.id].type = "CASUAL" /\ Days(requests[last.id]) = 2
    /\ requests[last.id].status = "PENDING"
    /\ requests[last.id].action_by = None
    /\ GetOrCreate(balance, requests[last.id].employee).casual = 0

\* C23: an approve by HR of a paid request whose type is neither CASUAL
\* nor SICK always succeeds, whatever the balance holds: the request is
\* stored APPROVED, the balance row of its employee exists afterwards
\* (fetched or created), and the casual and sick counters of that employee
\* and of every other employee keep their values.
C23_OtherPaidTypeNoBalanceCheck ==
    [][(/\ last'.op = "approve" /\ Role(last'.caller) = "hr"
        /\ Target.is_paid /\ Target.type \notin {"CASUAL", "SICK"})
       => /\ last'.code = 200
          /\ requests'[last'.id].status = "APPROVED"
          /\ Target.employee \in DOMAIN balance'
          /\ balance'[Target.employee] = GetOrCreate(balance, Target.employee)
          /\ CountersUnchanged]_vars

\* C23 witness: a paid 2-day request of type UNPAID was just approved for
\* an employee without a balance row: the row now exists with both
\* counters at 0, below the days of the request, and no other row exists.
C23_Witness ==
    /\ last.op = "approve" /\ last.code = 200
    /\ LET lr == requests[last.id]
       IN /\ lr.type = "UNPAID" /\ lr.is_paid /\ lr.status = "APPROVED"
          /\ Days(lr) = 2
          /\ DOMAIN balance = {lr.employee}
          /\ balance[lr.employee] = DefaultBalance

\* C24: in every state reached by check-in and check-out calls alone, from
\* a table that HR has neither entered rows into nor corrected, every row
\* with check_out set has check_in set, check_in <= check_out and the
\* status present or late, and every row with check_in set and check_out
\* unset has the status present.
C24_InOutRecordsWellFormed ==
    \A i \in 1..Len(attendance) :
        LET row == attendance[i]
        IN /\ row.check_out # NoTime
              => /\ row.check_in # NoTime
                 /\ row.check_in <= row.check_out
                 /\ row.status \in {"present", "late"}
           /\ (row.check_in # NoTime /\ row.check_out = NoTime)
              => row.status = "present"

\* C24 witness: alice checked in at 09:20 and has checked out, so her row
\* is late, while bob, whom HR checked in, has not checked out and his row
\* is present.
C24_Witness ==
    \E i, j \in 1..Len(attendance) :
        /\ attendance[i].employee = "alice"
        /\ attendance[i].check_in = InstantAt(2, tz)
        /\ attendance[i].check_out = InstantAt(2, tz)
        /\ attendance[i].status = "late"
        /\ attendance[j].employee = "bob"
        /\ attendance[j].check_in # NoTime /\ attendance[j].check_out = NoTime
        /\ attendance[j].status = "present"

====
